---- MODULE Spec2Model ----
(***************************************************************************)
(* GenericPipelinePublisher of depthai_bridge: the orchestrator that walks *)
(* a depthai pipeline, injects configuration-input nodes, starts the       *)
(* device, attaches dynamic_reconfigure servers and attaches one stream    *)
(* publisher per connection into an XLinkOut node.                         *)
(***************************************************************************)
EXTENDS Integers, Sequences, FiniteSets, TLC

VARIABLES
    nodes,          \* pipeline.getAllNodes(): node id (index) -> node
    conns,          \* pipeline.getConnectionMap(), in iteration order
    running,        \* _device.isPipelineRunning()
    keep_alive,     \* std::vector<std::shared_ptr<void>> keep_alive
    converters,     \* std::vector<std::shared_ptr<ImageConverter>> converters
    publishers,     \* std::vector<std::shared_ptr<BridgePublisherBase>> publishers
    ros,            \* the BridgePublisher objects constructed so far
    nextId,         \* identity of the next object made by make_shared
    pc,             \* position inside BuildPublisherFromPipeline
    idx,            \* position of the running range-for loop
    walkLen,        \* size of the vector getAllNodes() returned to the loop
    connections,    \* the local `connections` of BuildPublisherFromPipeline
    builds,         \* number of invocations of BuildPublisherFromPipeline
    events,         \* calls made by the invocation in progress, in order
    last,           \* what the most recent mapOutputStream call did
    current_config, \* camera node -> *current_config, the retained snapshot
    server_config,  \* camera node -> the config the Server object stores
    configQueue,    \* camera node -> control objects sent by the latest callback
    handled,        \* the callback that ran last, and its message
    before,         \* the snapshot when the last run-to-completion callback began
    thread,         \* callback -> its position and locals, when callbacks interleave
    mutex           \* holder of the Server object's mutex

build == <<nodes, conns, running, keep_alive, converters, publishers, ros,
           nextId, pc, idx, walkLen, connections, builds, events, last>>

ctl == <<current_config, server_config, configQueue, handled, before, thread, mutex>>

vars == <<build, ctl>>

-----------------------------------------------------------------------------
(* Bounds of the model *)

MaxBuilds == 2
MaxStereoIn == 2
MaxOutConns == 2
\* the bits of level a reconfigure call is enumerated over: 0 .. MaxLevelBit
MaxLevelBit == 11

(* Program constants *)

DefaultWidth == 1280
DefaultHeight == 720
\* 0xffffffff: a level is kept as the 32-bit pattern read in two's
\* complement, on which \div and % by powers of two are the shifts and
\* masks of the unsigned value
AllLevels == -1

-----------------------------------------------------------------------------
(* The pipeline: nodes and connections *)

Kinds == {"StereoDepth", "IMU", "ColorCamera", "MonoCamera", "XLinkOut", "XLinkIn", "Other"}

Node(kind, socket, res, stream) ==
    [kind |-> kind, socket |-> socket, res |-> res, stream |-> stream]

Connection(outputId, outputName, inputId, inputName) ==
    [outputId |-> outputId, outputName |-> outputName,
     inputId |-> inputId, inputName |-> inputName]

\* std::dynamic_pointer_cast<T>(node): non-null iff the node is of class T
DynCast(node, T) == nodes[node].kind = T

\* (int)cam->getBoardSocket()
SocketInt(socket) ==
    CASE socket = "AUTO" -> "-1"
      [] socket = "RGB" -> "0"
      [] socket = "LEFT" -> "1"
      [] socket = "RIGHT" -> "2"
      [] OTHER -> "3"

\* _frameNames[socket], for the table default_frame_mapping() builds
FrameNames(socket) ==
    CASE socket = "LEFT" -> "left_camera_optical_frame"
      [] socket = "RIGHT" -> "right_camera_optical_frame"
      [] socket = "RGB" -> "rgb_camera_optical_frame"
      [] OTHER -> ""

frame_prefix == "dai"

\* ImageConverter::calibrationToCameraInfo(_calibrationHandler, socket, w, h)
CameraInfo(socket, w, h) == [socket |-> socket, w |-> w, h |-> h]

\* the camera-info argument of the IMU publisher: the empty string
NoCameraInfo == [socket |-> "", w |-> 0, h |-> 0]

\* the sizes a ColorCamera reports for its outputs
VideoSize == <<1920, 1080>>
StillSize == <<4056, 3040>>
PreviewSize == <<300, 300>>
IspSize == <<2028, 1520>>

-----------------------------------------------------------------------------
(* The orchestrator's members as one value, so that the handlers are       *)
(* functions from members to members.                                      *)

This ==
    [keep_alive |-> keep_alive, converters |-> converters,
     publishers |-> publishers, ros |-> ros, nextId |-> nextId,
     calls |-> <<>>, warns |-> <<>>, ret |-> FALSE]

KeepAlive(cls, id, node) == [cls |-> cls, id |-> id, node |-> node]

\* std::make_shared<BridgePublisher<..>>(queue, _pnh, topic, bind(toRosMsg, conv), 30, info, name)
\* conn and build record which connection and which invocation made the object
BridgePublisher(id, xLinkOut, inputNode, inputName, topic, conv, info, name) ==
    [id |-> id, queue |-> nodes[xLinkOut].stream, topic |-> topic, conv |-> conv,
     info |-> info, name |-> name,
     conn |-> <<inputNode, inputName, xLinkOut>>, build |-> builds]

Called(self, T) == [self EXCEPT !.calls = Append(@, T)]

-----------------------------------------------------------------------------
(* mapKnownInputNodeType(xLinkOut, std::shared_ptr<StereoDepth>, inputName) *)

\* connections[stereo->id]: the connections into the stereo node, in the
\* order the unordered_set yields them
StereoConnections(stereo) == SelectSeq(conns, LAMBDA c : c.inputId = stereo)

\* the loop of lines 144-148: every connection on the side's input assigns
\* monoNode the result of the cast (0 is the null pointer)
RECURSIVE ScanMonoNode(_, _, _)
ScanMonoNode(stereoConnections, side_name, monoNode) ==
    IF stereoConnections = <<>> THEN monoNode
    ELSE LET connection == Head(stereoConnections)
             found == IF connection.inputName = side_name
                      THEN (IF DynCast(connection.outputId, "MonoCamera")
                            THEN connection.outputId ELSE 0)
                      ELSE monoNode
         IN ScanMonoNode(Tail(stereoConnections), side_name, found)

StereoFinishDropsConverter(self, converter, publisher) ==
    [self EXCEPT
        !.publishers = IF publisher # <<>> THEN Append(@, publisher[1].id) ELSE @,
        !.ros = @ \o publisher,
        !.ret = TRUE]

\* lines 168-175: keep the converter, register the publisher, return true
StereoFinish(self, converter, publisher) ==
    [self EXCEPT
        !.keep_alive = IF converter # <<>> THEN @ \o converter ELSE @,
        !.publishers = IF publisher # <<>> THEN Append(@, publisher[1].id) ELSE @,
        !.ros = @ \o publisher,
        !.ret = TRUE]

StereoSidedUnhandled(self, xLinkOut, stereo, inputName) ==
    LET side_name == IF inputName \in {"rectifiedLeft", "syncedLeft"} THEN "left" ELSE "right"
        pub_name == side_name \o (IF inputName \in {"rectifiedLeft", "rectifiedRight"}
                                  THEN "/image_rect" ELSE "/image_raw")
        monoNode == ScanMonoNode(StereoConnections(stereo), side_name, 0)
        cameraInfo == CameraInfo(nodes[monoNode].socket, nodes[monoNode].res[1],
                                 nodes[monoNode].res[2])
    IN  IF monoNode = 0
        THEN [self EXCEPT !.warns = Append(@, "Could not get input source"),
                          !.ret = FALSE]
        ELSE StereoFinish(
                [self EXCEPT !.nextId = @ + 2],
                <<KeepAlive("ImageConverter", self.nextId, stereo)>>,
                <<BridgePublisher(self.nextId + 1, xLinkOut, stereo, inputName,
                                  pub_name, self.nextId, cameraInfo, side_name)>>)

StereoSided(self, xLinkOut, stereo, inputName) ==
    LET side_name == IF inputName \in {"rectifiedLeft", "syncedLeft"} THEN "left" ELSE "right"
        pub_name == side_name \o (IF inputName \in {"rectifiedLeft", "rectifiedRight"}
                                  THEN "/image_rect" ELSE "/image_raw")
        monoNode == ScanMonoNode(StereoConnections(stereo), side_name, 0)
        cameraInfo == CameraInfo(nodes[monoNode].socket, nodes[monoNode].res[1],
                                 nodes[monoNode].res[2])
    IN  IF monoNode = 0
        THEN [self EXCEPT !.warns = Append(@, "Could not get input source"),
                          !.ret = TRUE]
        ELSE StereoFinish(
                [self EXCEPT !.nextId = @ + 2],
                <<KeepAlive("ImageConverter", self.nextId, stereo)>>,
                <<BridgePublisher(self.nextId + 1, xLinkOut, stereo, inputName,
                                  pub_name, self.nextId, cameraInfo, side_name)>>)

StereoDepthHandler(self0, xLinkOut, stereo, inputName) ==
    LET self == Called(self0, "StereoDepth")
        alignSocket == IF nodes[stereo].socket = "AUTO" THEN "RIGHT"
                       ELSE nodes[stereo].socket
        depthCameraInfo == CameraInfo(alignSocket, DefaultWidth, DefaultHeight)
        made == [self EXCEPT !.nextId = @ + 2]
    IN  CASE inputName = "depth" ->
               StereoFinish(made,
                   <<KeepAlive("ImageConverter", self.nextId, stereo)>>,
                   <<BridgePublisher(self.nextId + 1, xLinkOut, stereo, inputName,
                                     "stereo/depth", self.nextId, depthCameraInfo, "stereo")>>)
          [] inputName = "disparity" ->
               \* the DisparityConverter is pushed at line 118; the outer
               \* `converter` stays null
               StereoFinish(
                   [made EXCEPT !.keep_alive =
                        Append(@, KeepAlive("DisparityConverter", self.nextId, stereo))],
                   <<>>,
                   <<BridgePublisher(self.nextId + 1, xLinkOut, stereo, inputName,
                                     "stereo/disparity", self.nextId, depthCameraInfo, "stereo")>>)
          [] inputName = "confidenceMap" ->
               StereoFinish(made,
                   <<KeepAlive("ImageConverter", self.nextId, stereo)>>,
                   <<BridgePublisher(self.nextId + 1, xLinkOut, stereo, inputName,
                                     "stereo/confidenceMap", self.nextId, depthCameraInfo, "stereo")>>)
          [] inputName \in {"rectifiedLeft", "rectifiedRight", "syncedRight", "syncedLeft"} ->
               StereoSided(self, xLinkOut, stereo, inputName)
          [] OTHER ->
               StereoFinish([self EXCEPT !.warns = Append(@, "Don't understand output")],
                            <<>>, <<>>)

-----------------------------------------------------------------------------
(* mapKnownInputNodeType(xLinkOut, std::shared_ptr<IMU>, inputName) *)

IMUHandler(self0, xLinkOut, inputNode, inputName) ==
    LET self == Called(self0, "IMU")
        imuConverter == self.nextId
        ImuPublish == BridgePublisher(self.nextId + 1, xLinkOut, inputNode, inputName,
                                      "imu", imuConverter, NoCameraInfo, "imu")
    IN  [self EXCEPT
            !.keep_alive = @ \o <<KeepAlive("ImuConverter", imuConverter, inputNode),
                                  KeepAlive("BridgePublisher", ImuPublish.id, inputNode)>>,
            !.ros = Append(@, ImuPublish),
            !.nextId = @ + 2,
            !.ret = TRUE]

-----------------------------------------------------------------------------
(* mapKnownInputNodeType(xLinkOut, std::shared_ptr<MonoCamera>, inputName) *)

MonoCameraHandler(self0, xLinkOut, inputNode, inputName) ==
    LET self == Called(self0, "MonoCamera")
        frame == FrameNames(nodes[inputNode].socket)
        width == nodes[inputNode].res[1]
        height == nodes[inputNode].res[2]
        converter == self.nextId
        cameraInfo == CameraInfo(nodes[inputNode].socket, width, height)
        publisher == BridgePublisher(self.nextId + 1, xLinkOut, inputNode, inputName,
                                     frame \o "/image", converter, cameraInfo,
                                     "mono" \o SocketInt(nodes[inputNode].socket))
    IN  [self EXCEPT
            !.converters = Append(@, converter),
            !.publishers = Append(@, publisher.id),
            !.ros = Append(@, publisher),
            !.nextId = @ + 2,
            !.ret = TRUE]

-----------------------------------------------------------------------------
(* mapKnownInputNodeType(xLinkOut, std::shared_ptr<ColorCamera>, inputName) *)

ColorSizeOfVideo(inputName) ==
    CASE inputName = "still" -> StillSize
      [] inputName = "preview" -> PreviewSize
      [] inputName = "isp" -> IspSize
      [] OTHER -> VideoSize

\* lines 237-252: the size used for the intrinsics
ColorSize(inputName) ==
    CASE inputName = "video" -> VideoSize
      [] inputName = "still" -> StillSize
      [] inputName = "preview" -> PreviewSize
      [] inputName = "isp" -> IspSize
      [] OTHER -> <<DefaultWidth, DefaultHeight>>

ColorCameraHandler(self0, xLinkOut, inputNode, inputName) ==
    LET self == Called(self0, "ColorCamera")
        rgbConverter == self.nextId
        size == ColorSize(inputName)
        rgbCameraInfo == CameraInfo(nodes[inputNode].socket, size[1], size[2])
        publisher == BridgePublisher(self.nextId + 1, xLinkOut, inputNode, inputName,
                                     "color/image", rgbConverter, rgbCameraInfo, "color")
    IN  [self EXCEPT
            !.converters = Append(@, rgbConverter),
            !.warns = IF inputName \in {"video", "still", "preview", "isp"} THEN @
                      ELSE Append(@, "Don't understand output"),
            !.publishers = Append(@, publisher.id),
            !.ros = Append(@, publisher),
            !.nextId = @ + 2,
            !.ret = TRUE]

-----------------------------------------------------------------------------
(* mapKnownInputNodeTypes<ColorCamera, IMU, StereoDepth, MonoCamera> *)

\* overload resolution of mapKnownInputNodeType on the type of the cast pointer
mapKnownInputNodeType(T, self, xLinkOut, inputNode, inputName) ==
    CASE T = "ColorCamera" -> ColorCameraHandler(self, xLinkOut, inputNode, inputName)
      [] T = "IMU" -> IMUHandler(self, xLinkOut, inputNode, inputName)
      [] T = "StereoDepth" -> StereoDepthHandler(self, xLinkOut, inputNode, inputName)
      [] T = "MonoCamera" -> MonoCameraHandler(self, xLinkOut, inputNode, inputName)

RECURSIVE mapKnownInputNodeTypesUncast(_, _, _, _, _)
mapKnownInputNodeTypesUncast(Args, self, xLinkOut, inputNode, inputName) ==
    IF Args = <<>> THEN [self EXCEPT !.ret = FALSE]
    ELSE LET T == Head(Args)
             r == mapKnownInputNodeType(T, self, xLinkOut, inputNode, inputName)
         IN  IF r.ret THEN r
             ELSE mapKnownInputNodeTypesUncast(Tail(Args), r, xLinkOut, inputNode, inputName)

RECURSIVE mapKnownInputNodeTypes(_, _, _, _, _)
mapKnownInputNodeTypes(Args, self, xLinkOut, inputNode, inputName) ==
    IF Args = <<>> THEN [self EXCEPT !.ret = FALSE]
    ELSE LET T == Head(Args)
             inputNodeTyped == DynCast(inputNode, T)
             r == IF inputNodeTyped
                  THEN mapKnownInputNodeType(T, self, xLinkOut, inputNode, inputName)
                  ELSE self
         IN  IF inputNodeTyped /\ r.ret THEN r
             ELSE mapKnownInputNodeTypes(Tail(Args), r, xLinkOut, inputNode, inputName)

KnownInputNodeTypes == <<"ColorCamera", "IMU", "StereoDepth", "MonoCamera">>

mapOutputStreamTwice(self, xLinkOut, connection) ==
    LET otherNode == connection.outputId
        once == mapKnownInputNodeTypes(KnownInputNodeTypes, self, xLinkOut, otherNode,
                                       connection.outputName)
        r == mapKnownInputNodeTypes(KnownInputNodeTypes, once, xLinkOut, otherNode,
                                    connection.outputName)
    IN  IF ~r.ret
        THEN [r EXCEPT !.warns = Append(@, "Could not generate depthai publisher")]
        ELSE r

mapOutputStream(self, xLinkOut, connection) ==
    LET otherNode == connection.outputId
        r == mapKnownInputNodeTypes(KnownInputNodeTypes, self, xLinkOut, otherNode,
                                    connection.outputName)
    IN  IF ~r.ret
        THEN [r EXCEPT !.warns = Append(@, "Could not generate depthai publisher")]
        ELSE r

-----------------------------------------------------------------------------
(* addConfigNodes and setupCameraControlQueue: the configuration inputs *)

\* prefix + std::to_string((int)cam->getBoardSocket())
ControlName(prefix, cam) == prefix \o SocketInt(nodes[cam].socket)

\* pipeline.create<XLinkIn>(), setStreamName(stream), configIn->out.link(input)
LinkConfigIn(pipeline, stream, node, inputName) ==
    LET configIn == Len(pipeline.nodes) + 1
    IN  [nodes |-> Append(pipeline.nodes, Node("XLinkIn", "AUTO", <<0, 0>>, stream)),
         conns |-> Append(pipeline.conns, Connection(configIn, "out", node, inputName))]

setupCameraControlQueue(pipeline, cam, prefix) ==
    LinkConfigIn(pipeline, ControlName(prefix, cam) \o "_inputControl", cam, "inputControl")

addConfigNodes(pipeline, node) ==
    CASE DynCast(node, "StereoDepth") -> LinkConfigIn(pipeline, "stereoConfig", node, "inputConfig")
      [] DynCast(node, "ColorCamera") -> setupCameraControlQueue(pipeline, node, "rgb")
      [] DynCast(node, "MonoCamera") -> setupCameraControlQueue(pipeline, node, "mono")
      [] OTHER -> pipeline

-----------------------------------------------------------------------------
(* setupCameraControlServer: the snapshot and the translation to a         *)
(* dai::CameraControl                                                      *)

ConfigFields ==
    {"autofocus_mode", "autofocus_startx", "autofocus_starty", "autofocus_width",
     "autofocus_height", "autofocus_min", "autofocus_max", "manual_focus",
     "autoexposure_lock", "autoexposure_startx", "autoexposure_starty",
     "autoexposure_width", "autoexposure_height", "autoexposure_compensation",
     "contrast", "brightness", "saturation", "sharpness", "chroma_denoise"}

\* server->getConfigDefault(*current_config)
DefaultConfig == [f \in ConfigFields |-> 0]

BitAsThreshold(level, b) == level = AllLevels \/ level >= b

\* level & b, for a single bit b
Bit(level, b) == (level \div b) % 2 = 1

\* conversion to the uint16_t parameters of the region setters
U16(v) == v % 65536

Setter(cond, call) == IF cond THEN <<call>> ELSE <<>>

\* lines 292-306: the setters applied to dcfg, in order
CameraControl(cfg, level) ==
    Setter(level = AllLevels \/ level % 8 # 0, <<"setStartStreaming">>)
    \o Setter(Bit(level, 1), <<"setAutoFocusMode", cfg.autofocus_mode>>)
    \o Setter(Bit(level, 2), <<"setAutoFocusRegion", U16(cfg.autofocus_startx),
                               U16(cfg.autofocus_starty), U16(cfg.autofocus_width),
                               U16(cfg.autofocus_height)>>)
    \o Setter(Bit(level, 2), <<"setAutoFocusLensRange", cfg.autofocus_min, cfg.autofocus_max>>)
    \o Setter(Bit(level, 4), <<"setManualFocus", cfg.manual_focus>>)
    \o Setter(Bit(level, 8), <<"setAutoExposureLock", cfg.autoexposure_lock>>)
    \o Setter(Bit(level, 16), <<"setAutoExposureRegion", U16(cfg.autoexposure_startx),
                                U16(cfg.autoexposure_starty), U16(cfg.autoexposure_width),
                                U16(cfg.autoexposure_height)>>)
    \o Setter(Bit(level, 32), <<"setAutoExposureCompensation", cfg.autoexposure_compensation>>)
    \o Setter(Bit(level, 64), <<"setContrast", cfg.contrast>>)
    \o Setter(Bit(level, 128), <<"setBrightness", cfg.brightness>>)
    \o Setter(Bit(level, 256), <<"setSaturation", cfg.saturation>>)
    \o Setter(Bit(level, 512), <<"setSharpness", cfg.sharpness>>)
    \o Setter(Bit(level, 1024), <<"setChromaDenoise", cfg.chroma_denoise>>)

\* the lambda of lines 291-310: the new snapshot and the object sent
triggger_update(cfg, level) ==
    [current_config |-> cfg, dcfg |-> CameraControl(cfg, level)]

\* bb->size_x / 2; the messages of the model have even sizes, so the
\* quotient is exact
Half(v) == v \div 2

AeRegionFromCentre(bb) ==
    [autoexposure_startx |-> bb.center_x,
     autoexposure_starty |-> bb.center_y,
     autoexposure_width |-> bb.size_x,
     autoexposure_height |-> bb.size_y]

\* lines 320-323: the four assignments of the ae_bbox callback
AeRegion(bb) ==
    [autoexposure_startx |-> bb.center_x - Half(bb.size_x),
     autoexposure_starty |-> bb.center_y - Half(bb.size_y),
     autoexposure_width |-> bb.size_x,
     autoexposure_height |-> bb.size_y]

\* lines 334-337: the four assignments of the af_bbox callback
AfRegion(bb) ==
    [autofocus_startx |-> bb.center_x - Half(bb.size_x),
     autofocus_starty |-> bb.center_y - Half(bb.size_y),
     autofocus_width |-> bb.size_x,
     autofocus_height |-> bb.size_y]

\* cfg with the fields of region r assigned
Assign(cfg, r) == [f \in DOMAIN cfg |-> IF f \in DOMAIN r THEN r[f] ELSE cfg[f]]

\* the bit the generated config gives the group of a parameter
LevelOf(f) ==
    CASE f = "autofocus_mode" -> 1
      [] f \in {"autofocus_startx", "autofocus_starty", "autofocus_width",
                "autofocus_height", "autofocus_min", "autofocus_max"} -> 2
      [] f = "manual_focus" -> 4
      [] f = "autoexposure_lock" -> 8
      [] f \in {"autoexposure_startx", "autoexposure_starty", "autoexposure_width",
                "autoexposure_height"} -> 16
      [] f = "autoexposure_compensation" -> 32
      [] f = "contrast" -> 64
      [] f = "brightness" -> 128
      [] f = "saturation" -> 256
      [] f = "sharpness" -> 512
      [] f = "chroma_denoise" -> 1024

-----------------------------------------------------------------------------
(* mapNode and setupCameraControlServer: the configuration servers *)

\* lines 287-344: the snapshot, the two subscriptions and the server are
\* pushed to keep_alive in this order
setupCameraControlServer(self, cam, prefix) ==
    [self EXCEPT
        !.keep_alive = @ \o <<KeepAlive("CameraControlConfig", self.nextId, cam),
                              KeepAlive("ae_subscriber", self.nextId + 1, cam),
                              KeepAlive("af_subscriber", self.nextId + 2, cam),
                              KeepAlive("Server<CameraControlConfig>", self.nextId + 3, cam)>>,
        !.nextId = @ + 4]

mapNode(self, node) ==
    CASE DynCast(node, "StereoDepth") ->
            [self EXCEPT
                !.keep_alive = Append(@, KeepAlive("Server<StereoDepthConfig>", self.nextId, node)),
                !.nextId = @ + 1]
      [] DynCast(node, "ColorCamera") -> setupCameraControlServer(self, node, "rgb")
      [] DynCast(node, "MonoCamera") -> setupCameraControlServer(self, node, "mono")
      [] OTHER -> self

IsServer(k) == k.cls \in {"Server<StereoDepthConfig>", "Server<CameraControlConfig>"}

\* the configuration servers held for a node
ServersOf(node) == SelectSeq(keep_alive, LAMBDA k : IsServer(k) /\ k.node = node)

-----------------------------------------------------------------------------
(* BuildPublisherFromPipeline, one action per call it makes *)

NoConnection == Connection(0, "", 0, "")

NoCall == [conn |-> NoConnection, calls |-> <<>>, warns |-> <<>>, ret |-> FALSE,
           pubs |-> <<>>, kept |-> <<>>, convs |-> <<>>]

Suffix(new, old) == SubSeq(new, Len(old) + 1, Len(new))

\* lines 18-20 and 30-32: entry; a running device skips both node walks.
\* The first event of an invocation is what isPipelineRunning() answered.
BuildReturnsWhenRunning ==
    /\ pc = "idle"
    /\ builds < MaxBuilds
    /\ builds' = builds + 1
    /\ connections' = conns
    /\ idx' = 1
    /\ walkLen' = Len(nodes)
    /\ IF running
       THEN /\ pc' = "idle"
            /\ events' = <<<<"isPipelineRunning", 1>>, <<"ROS_WARN", 0>>>>
       ELSE /\ pc' = "inject"
            /\ events' = <<<<"isPipelineRunning", 0>>>>
    /\ UNCHANGED <<nodes, conns, running, keep_alive, converters, publishers,
                   ros, nextId, last>>
    /\ UNCHANGED ctl

BuildIgnoresRunning ==
    /\ pc = "idle"
    /\ builds < MaxBuilds
    /\ builds' = builds + 1
    /\ connections' = conns
    /\ idx' = 1
    /\ walkLen' = Len(nodes)
    /\ pc' = "inject"
    /\ events' = <<<<"isPipelineRunning", IF running THEN 1 ELSE 0>>>>
    /\ UNCHANGED <<nodes, conns, running, keep_alive, converters, publishers,
                   ros, nextId, last>>
    /\ UNCHANGED ctl

Build ==
    /\ pc = "idle"
    /\ builds < MaxBuilds
    /\ builds' = builds + 1
    /\ connections' = conns
    /\ idx' = 1
    /\ walkLen' = Len(nodes)
    /\ IF running
       THEN /\ pc' = "streams"
            /\ events' = <<<<"isPipelineRunning", 1>>, <<"ROS_WARN", 0>>>>
       ELSE /\ pc' = "inject"
            /\ events' = <<<<"isPipelineRunning", 0>>>>
    /\ UNCHANGED <<nodes, conns, running, keep_alive, converters, publishers,
                   ros, nextId, last>>
    /\ UNCHANGED ctl

\* lines 21-23: one iteration of the first node walk
AddConfigNodes ==
    /\ pc = "inject"
    /\ idx <= walkLen
    /\ LET p == addConfigNodes([nodes |-> nodes, conns |-> conns], idx)
       IN  /\ nodes' = p.nodes
           /\ conns' = p.conns
    /\ events' = Append(events, <<"addConfigNodes", idx>>)
    /\ idx' = idx + 1
    /\ UNCHANGED <<running, keep_alive, converters, publishers, ros, nextId, pc,
                   walkLen, connections, builds, last>>
    /\ UNCHANGED ctl

\* line 25, then line 27: getAllNodes() is read again for the second walk
StartPipelineEarly ==
    /\ pc = "inject"
    /\ running' = TRUE
    /\ events' = Append(events, <<"startPipeline", 0>>)
    /\ walkLen' = Len(nodes)
    /\ idx' = 1
    /\ pc' = IF Len(nodes) = 0 THEN "streams" ELSE "servers"
    /\ UNCHANGED <<nodes, conns, keep_alive, converters, publishers, ros, nextId,
                   connections, builds, last>>
    /\ UNCHANGED ctl

StartPipeline ==
    /\ pc = "inject"
    /\ idx > walkLen
    /\ running' = TRUE
    /\ events' = Append(events, <<"startPipeline", 0>>)
    /\ walkLen' = Len(nodes)
    /\ idx' = 1
    /\ pc' = IF Len(nodes) = 0 THEN "streams" ELSE "servers"
    /\ UNCHANGED <<nodes, conns, keep_alive, converters, publishers, ros, nextId,
                   connections, builds, last>>
    /\ UNCHANGED ctl

\* lines 27-29: one iteration of the second node walk
MapNode ==
    /\ pc = "servers"
    /\ idx <= walkLen
    /\ LET r == mapNode(This, idx)
       IN  /\ keep_alive' = r.keep_alive
           /\ nextId' = r.nextId
    /\ events' = Append(events, <<"mapNode", idx>>)
    /\ idx' = IF idx = walkLen THEN 1 ELSE idx + 1
    /\ pc' = IF idx = walkLen THEN "streams" ELSE "servers"
    /\ IF DynCast(idx, "ColorCamera") \/ DynCast(idx, "MonoCamera")
       THEN \* lines 287-288, and the first callback setCallback makes, with
            \* every bit of level set
            LET r == triggger_update(DefaultConfig, AllLevels)
            IN  /\ current_config' = (idx :> r.current_config) @@ current_config
                /\ server_config' = (idx :> DefaultConfig) @@ server_config
                /\ configQueue' = (idx :> <<r.dcfg>>) @@ configQueue
       ELSE UNCHANGED <<current_config, server_config, configQueue>>
    /\ UNCHANGED <<nodes, conns, running, converters, publishers, ros, walkLen,
                   connections, builds, last, handled, before, thread, mutex>>

\* lines 34-42: one connection of the captured map; only the connections
\* into an XLinkOut node reach mapOutputStream
MapOutputStream ==
    /\ pc = "streams"
    /\ idx <= Len(connections)
    /\ LET connection == connections[idx]
           r == mapOutputStream(This, connection.inputId, connection)
       IN  IF DynCast(connection.inputId, "XLinkOut")
           THEN /\ keep_alive' = r.keep_alive
                /\ converters' = r.converters
                /\ publishers' = r.publishers
                /\ ros' = r.ros
                /\ nextId' = r.nextId
                /\ events' = Append(events, <<"mapOutputStream", idx>>)
                /\ last' = [conn |-> connection, calls |-> r.calls, warns |-> r.warns,
                            ret |-> r.ret, pubs |-> Suffix(r.ros, ros),
                            kept |-> Suffix(r.keep_alive, keep_alive),
                            convs |-> Suffix(r.converters, converters)]
           ELSE UNCHANGED <<keep_alive, converters, publishers, ros, nextId, events, last>>
    /\ idx' = idx + 1
    /\ UNCHANGED <<nodes, conns, running, pc, walkLen, connections, builds>>
    /\ UNCHANGED ctl

\* line 43
Return ==
    /\ pc = "streams"
    /\ idx > Len(connections)
    /\ pc' = "idle"
    /\ UNCHANGED <<nodes, conns, running, keep_alive, converters, publishers, ros,
                   nextId, idx, walkLen, connections, builds, events, last>>
    /\ UNCHANGED ctl

-----------------------------------------------------------------------------
(* The callbacks of one camera's server and subscriptions, each run to     *)
(* completion before the next (a single-threaded spinner)                  *)

BoundingBox2D(cx, cy, sx, sy) ==
    [center_x |-> cx, center_y |-> cy, size_x |-> sx, size_y |-> sy]

NoBBox == BoundingBox2D(0, 0, 0, 0)

NoCallback == [op |-> "none", cam |-> 0, bb |-> NoBBox, level |-> 0, dcfg |-> <<>>]

Callbacks == {"srv", "ae", "af"}

Idle == [pc |-> "idle", bb |-> NoBBox, cfg |-> DefaultConfig, level |-> 0, dcfg |-> <<>>]

\* the messages published on ae_bbox and af_bbox
BBoxes == {BoundingBox2D(4, 6, 2, 4), BoundingBox2D(1, 3, 4, 2)}

\* the parameter changes a reconfigure request makes
Requests == {<<"contrast", 1>>, <<"contrast", 0>>, <<"autoexposure_width", 8>>,
             <<"autofocus_mode", 1>>}

\* the config and level the Server hands its callback for a request
Requested(cam, req) ==
    [cfg |-> [server_config[cam] EXCEPT ![req[1]] = req[2]],
     level |-> IF server_config[cam][req[1]] # req[2] THEN LevelOf(req[1]) ELSE 0]

HasServer(cam) == cam \in DOMAIN current_config

\* lines 312-314: the callback of the Server
ServerCallback(cam, req) ==
    /\ pc = "idle"
    /\ HasServer(cam)
    /\ LET in == Requested(cam, req)
           r == triggger_update(in.cfg, in.level)
       IN  /\ current_config' = [current_config EXCEPT ![cam] = r.current_config]
           /\ configQueue' = [configQueue EXCEPT ![cam] = <<r.dcfg>>]
           /\ server_config' = [server_config EXCEPT ![cam] = in.cfg]
           /\ handled' = [op |-> "reconfigure", cam |-> cam, bb |-> NoBBox,
                          level |-> in.level, dcfg |-> r.dcfg]
           /\ before' = current_config[cam]
    /\ UNCHANGED <<build, thread, mutex>>

\* the single bits 0 .. MaxLevelBit of level
LevelBits == {2^i : i \in 0..MaxLevelBit}

\* the values of level the Server hands its callback: no bit, the sums of up
\* to two of the bits, every bit 0 .. MaxLevelBit, and the all-ones value of
\* the call setCallback makes
Levels ==
    {a + b : a \in LevelBits \cup {0}, b \in LevelBits \cup {0}}
    \cup {2^(MaxLevelBit + 1) - 1, AllLevels}

\* lines 312-314 for a callback with the stored config and a given level
ServerCallbackLevel(cam, level) ==
    /\ pc = "idle"
    /\ HasServer(cam)
    /\ LET r == triggger_update(server_config[cam], level)
       IN  /\ current_config' = [current_config EXCEPT ![cam] = r.current_config]
           /\ configQueue' = [configQueue EXCEPT ![cam] = <<r.dcfg>>]
           /\ handled' = [op |-> "reconfigure", cam |-> cam, bb |-> NoBBox,
                          level |-> level, dcfg |-> r.dcfg]
           /\ before' = current_config[cam]
    /\ UNCHANGED <<build, server_config, thread, mutex>>

\* lines 319-326
AeBBox(cam, bb) ==
    /\ pc = "idle"
    /\ HasServer(cam)
    /\ LET written == Assign(current_config[cam], AeRegion(bb))
           r == triggger_update(written, 16)
       IN  /\ server_config' = [server_config EXCEPT ![cam] = written]
           /\ current_config' = [current_config EXCEPT ![cam] = r.current_config]
           /\ configQueue' = [configQueue EXCEPT ![cam] = <<r.dcfg>>]
           /\ handled' = [op |-> "ae_bbox", cam |-> cam, bb |-> bb, level |-> 16,
                          dcfg |-> r.dcfg]
           /\ before' = current_config[cam]
    /\ UNCHANGED <<build, thread, mutex>>

\* lines 333-340
AfBBox(cam, bb) ==
    /\ pc = "idle"
    /\ HasServer(cam)
    /\ LET written == Assign(current_config[cam], AfRegion(bb))
           r == triggger_update(written, 2)
       IN  /\ server_config' = [server_config EXCEPT ![cam] = written]
           /\ current_config' = [current_config EXCEPT ![cam] = r.current_config]
           /\ configQueue' = [configQueue EXCEPT ![cam] = <<r.dcfg>>]
           /\ handled' = [op |-> "af_bbox", cam |-> cam, bb |-> bb, level |-> 2,
                          dcfg |-> r.dcfg]
           /\ before' = current_config[cam]
    /\ UNCHANGED <<build, thread, mutex>>

-----------------------------------------------------------------------------
(* The same callbacks statement by statement, as a multi-threaded spinner  *)
(* runs them: one thread per callback. The Server object locks its mutex   *)
(* around its callback and inside updateConfig; the subscription callbacks *)
(* take no lock.                                                           *)

RegionOf(t, bb) == IF t = "ae" THEN AeRegion(bb) ELSE AfRegion(bb)

\* the messages and requests that arrive while callbacks overlap
ThreadBBoxes == {BoundingBox2D(4, 6, 2, 4)}
ThreadRequests == {<<"contrast", 1>>, <<"autoexposure_width", 8>>}

\* lines 320-323 (334-337): a message is taken from the subscription queue
\* and its four assignments are made
BBoxAssign(t, cam, bb) ==
    /\ pc = "idle"
    /\ HasServer(cam)
    /\ thread[t].pc = "idle"
    /\ current_config' = [current_config EXCEPT
                            ![cam] = Assign(current_config[cam], RegionOf(t, bb))]
    /\ thread' = [thread EXCEPT ![t] = [Idle EXCEPT !.pc = "updateConfig", !.bb = bb]]
    /\ UNCHANGED <<build, server_config, configQueue, handled, before, mutex>>

\* line 324 (338): server->updateConfig(*current_config), under the mutex
BBoxUpdateConfig(t, cam) ==
    /\ thread[t].pc = "updateConfig"
    /\ mutex = "free"
    /\ server_config' = [server_config EXCEPT ![cam] = current_config[cam]]
    /\ thread' = [thread EXCEPT ![t].pc = "dcfg"]
    /\ UNCHANGED <<build, current_config, configQueue, handled, before, mutex>>

BBoxControlAllLevels(t, cam) ==
    /\ thread[t].pc = "dcfg"
    /\ thread' = [thread EXCEPT
                    ![t].pc = "send",
                    ![t].dcfg = CameraControl(current_config[cam], AllLevels)]
    /\ UNCHANGED <<build, current_config, server_config, configQueue, handled, before, mutex>>

\* lines 292-306, called from line 325 (339): cfg is *current_config itself
BBoxControl(t, cam) ==
    /\ thread[t].pc = "dcfg"
    /\ thread' = [thread EXCEPT
                    ![t].pc = "send",
                    ![t].dcfg = CameraControl(current_config[cam], IF t = "ae" THEN 16 ELSE 2)]
    /\ UNCHANGED <<build, current_config, server_config, configQueue, handled, before, mutex>>

\* lines 308-309: the assignment of *current_config to itself, and the send
BBoxSend(t, cam) ==
    /\ thread[t].pc = "send"
    /\ configQueue' = [configQueue EXCEPT ![cam] = <<thread[t].dcfg>>]
    /\ handled' = [op |-> t \o "_bbox", cam |-> cam, bb |-> thread[t].bb,
                   level |-> IF t = "ae" THEN 16 ELSE 2, dcfg |-> thread[t].dcfg]
    /\ thread' = [thread EXCEPT ![t] = Idle]
    /\ UNCHANGED <<build, current_config, server_config, before, mutex>>

\* the Server takes its mutex and calls the callback with the new config
ServerReceive(cam, req) ==
    /\ pc = "idle"
    /\ HasServer(cam)
    /\ thread["srv"].pc = "idle"
    /\ mutex = "free"
    /\ mutex' = "srv"
    /\ LET in == Requested(cam, req)
       IN  thread' = [thread EXCEPT !["srv"] =
                        [Idle EXCEPT !.pc = "dcfg", !.cfg = in.cfg, !.level = in.level]]
    /\ UNCHANGED <<build, current_config, server_config, configQueue, handled, before>>

\* lines 292-306, called from line 313
ServerControl(cam) ==
    /\ thread["srv"].pc = "dcfg"
    /\ thread' = [thread EXCEPT
                    !["srv"].pc = "send",
                    !["srv"].dcfg = CameraControl(thread["srv"].cfg, thread["srv"].level)]
    /\ UNCHANGED <<build, current_config, server_config, configQueue, handled, before, mutex>>

\* lines 308-309: *current_config = cfg and the send
ServerSend(cam) ==
    /\ thread["srv"].pc = "send"
    /\ current_config' = [current_config EXCEPT ![cam] = thread["srv"].cfg]
    /\ configQueue' = [configQueue EXCEPT ![cam] = <<thread["srv"].dcfg>>]
    /\ thread' = [thread EXCEPT !["srv"].pc = "return"]
    /\ UNCHANGED <<build, server_config, handled, before, mutex>>

\* the callback returns: the Server stores the config and frees its mutex
ServerReturn(cam) ==
    /\ thread["srv"].pc = "return"
    /\ server_config' = [server_config EXCEPT ![cam] = thread["srv"].cfg]
    /\ handled' = [op |-> "reconfigure", cam |-> cam, bb |-> NoBBox,
                   level |-> thread["srv"].level, dcfg |-> thread["srv"].dcfg]
    /\ mutex' = "free"
    /\ thread' = [thread EXCEPT !["srv"] = Idle]
    /\ UNCHANGED <<build, current_config, configQueue, before>>

\* the camera whose callbacks run
TheCamera == CHOOSE cam \in DOMAIN nodes : DynCast(cam, "ColorCamera") \/ DynCast(cam, "MonoCamera")

BBoxMessage == \E t \in {"ae", "af"}, bb \in ThreadBBoxes : BBoxAssign(t, TheCamera, bb)
BBoxUpdatesServer == \E t \in {"ae", "af"} : BBoxUpdateConfig(t, TheCamera)
BBoxBuildsControl == \E t \in {"ae", "af"} : BBoxControl(t, TheCamera)
BBoxSends == \E t \in {"ae", "af"} : BBoxSend(t, TheCamera)
ReconfigureRequest == \E req \in ThreadRequests : ServerReceive(TheCamera, req)
ServerBuildsControl == ServerControl(TheCamera)
ServerSends == ServerSend(TheCamera)
ServerReturns == ServerReturn(TheCamera)

Reconfigure == \E cam \in DOMAIN nodes, req \in Requests : ServerCallback(cam, req)
AeMessage == \E cam \in DOMAIN nodes, bb \in BBoxes : AeBBox(cam, bb)
AfMessage == \E cam \in DOMAIN nodes, bb \in BBoxes : AfBBox(cam, bb)
ReconfigureLevel == \E cam \in DOMAIN nodes, level \in Levels : ServerCallbackLevel(cam, level)

Next == Build \/ AddConfigNodes \/ StartPipeline \/ MapNode \/ MapOutputStream \/ Return

-----------------------------------------------------------------------------
(* The pipelines the orchestrator is constructed on *)

BaseNodes ==
    <<Node("MonoCamera", "LEFT", <<640, 400>>, ""),
      Node("MonoCamera", "RIGHT", <<1280, 800>>, ""),
      Node("StereoDepth", "AUTO", <<0, 0>>, ""),
      Node("ColorCamera", "RGB", <<0, 0>>, ""),
      Node("IMU", "AUTO", <<0, 0>>, ""),
      Node("Other", "AUTO", <<0, 0>>, ""),
      Node("XLinkOut", "AUTO", <<0, 0>>, "out")>>

\* the id of the node of a kind on a socket
NodeOf(kind, socket) ==
    CHOOSE n \in DOMAIN BaseNodes :
        BaseNodes[n].kind = kind /\ BaseNodes[n].socket = socket

MonoLeft == NodeOf("MonoCamera", "LEFT")
MonoRight == NodeOf("MonoCamera", "RIGHT")
Stereo == NodeOf("StereoDepth", "AUTO")
Color == NodeOf("ColorCamera", "RGB")
Imu == NodeOf("IMU", "AUTO")
Manip == NodeOf("Other", "AUTO")
XOut == NodeOf("XLinkOut", "AUTO")

\* sequences without repetition of at most n elements of S
RECURSIVE SeqsUpTo(_, _)
SeqsUpTo(S, n) ==
    IF n = 0 THEN {<<>>}
    ELSE LET shorter == SeqsUpTo(S, n - 1)
         IN  shorter \cup {Append(q, x) : q \in {t \in shorter : Len(t) = n - 1},
                                           x \in S}

NoRepeat(q) == \A i, j \in 1..Len(q) : i # j => q[i] # q[j]

\* what may feed the two inputs of the stereo node
StereoInputs ==
    {Connection(MonoLeft, "out", Stereo, "left"),
     Connection(Manip, "out", Stereo, "left"),
     Connection(MonoRight, "out", Stereo, "right")}

StereoPorts == {"depth", "disparity", "confidenceMap", "rectifiedLeft", "rectifiedRight",
                "syncedLeft", "syncedRight", "outConfig"}
ColorPorts == {"video", "still", "preview", "isp", "raw"}

\* the outputs linked to the XLinkOut node
Outputs ==
    {Connection(Stereo, "depth", XOut, "in"),
     Connection(Stereo, "rectifiedLeft", XOut, "in"),
     Connection(Color, "video", XOut, "in"),
     Connection(Imu, "out", XOut, "in"),
     Connection(MonoLeft, "out", XOut, "in"),
     Connection(Manip, "out", XOut, "in")}

AllOutputs ==
    {Connection(n, p, XOut, "in") :
        n \in {MonoLeft, Stereo, Color, Imu, Manip}, p \in StereoPorts \cup ColorPorts \cup {"out"}}

InitOn(ns, cs) ==
    /\ nodes = ns
    /\ conns = cs
    /\ running \in BOOLEAN
    /\ keep_alive = <<>>
    /\ converters = <<>>
    /\ publishers = <<>>
    /\ ros = <<>>
    /\ nextId = 1
    /\ pc = "idle"
    /\ idx = 1
    /\ walkLen = 0
    /\ connections = <<>>
    /\ builds = 0
    /\ events = <<>>
    /\ last = NoCall
    /\ current_config = <<>>
    /\ server_config = <<>>
    /\ configQueue = <<>>
    /\ handled = NoCallback
    /\ before = DefaultConfig
    /\ thread = [t \in Callbacks |-> Idle]
    /\ mutex = "free"

\* the constructor has initialised the members and is about to call
\* BuildPublisherFromPipeline (line 51)
Init ==
    \E stereoIn \in {q \in SeqsUpTo(StereoInputs, MaxStereoIn) : NoRepeat(q)},
       outs \in {q \in SeqsUpTo(Outputs, MaxOutConns) : NoRepeat(q)} :
        InitOn(BaseNodes, stereoIn \o outs)

Spec == Init /\ [][Next]_vars

\* the same program on pipelines with one output connection of any
\* producer and port name
InitMap ==
    \E stereoIn \in {q \in SeqsUpTo(StereoInputs, MaxStereoIn) : NoRepeat(q)},
       out \in AllOutputs :
        InitOn(BaseNodes, stereoIn \o <<out>>)

SpecMap == InitMap /\ [][Next]_vars

\* a pipeline of one camera and its output, with the callbacks of the
\* camera's server and subscriptions
CtlCameras ==
    {Node("ColorCamera", "RGB", <<0, 0>>, ""),
     Node("MonoCamera", "LEFT", <<640, 400>>, "")}

InitCtl ==
    \E cam \in CtlCameras :
        InitOn(<<cam, Node("XLinkOut", "AUTO", <<0, 0>>, "out")>>,
               <<Connection(1, "out", 2, "in")>>)

NextCtl == Next \/ Reconfigure \/ AeMessage \/ AfMessage

SpecCtl == InitCtl /\ [][NextCtl]_vars

\* the construction, then the callbacks of the camera on concurrent threads
NextThreads ==
    \/ (builds = 0 \/ pc # "idle") /\ Next
    \/ BBoxMessage \/ BBoxUpdatesServer \/ BBoxBuildsControl \/ BBoxSends
    \/ ReconfigureRequest \/ ServerBuildsControl \/ ServerSends \/ ServerReturns

SpecThreads == InitCtl /\ [][NextThreads]_vars

\* the construction, then reconfigure calls of every level and bounding-box
\* messages
NextLevels ==
    \/ (builds = 0 \/ pc # "idle") /\ Next
    \/ ReconfigureLevel \/ AeMessage \/ AfMessage

SpecLevels == InitCtl /\ [][NextLevels]_vars

-----------------------------------------------------------------------------
(* Properties of BuildPublisherFromPipeline *)

EventsOf(op) == {i \in 1..Len(events) : events[i][1] = op}

ArgsBefore(op, j) == {events[i][2] : i \in {k \in EventsOf(op) : k < j}}

Rank(e) ==
    CASE e[1] = "addConfigNodes" -> 1
      [] e[1] = "startPipeline" -> 2
      [] e[1] = "mapNode" -> 3
      [] e[1] = "mapOutputStream" -> 4
      [] OTHER -> 0

FoundRunning == events # <<>> /\ events[1] = <<"isPipelineRunning", 1>>
FoundStopped == events # <<>> /\ events[1] = <<"isPipelineRunning", 0>>

\* the nodes the pipeline had before any configuration input was injected
OriginalNodes == {n \in DOMAIN nodes : ~DynCast(n, "XLinkIn")}

XLinkOutConnections ==
    {k \in 1..Len(connections) : DynCast(connections[k].inputId, "XLinkOut")}

\* C1: in an invocation that finds the device stopped, the calls are made
\* in the order addConfigNodes*, startPipeline, mapNode*, mapOutputStream*;
\* the pipeline is started after addConfigNodes ran for every node it had,
\* and the first mapOutputStream comes after the start and after mapNode
\* ran for every node, the injected ones included.
C1_BuildOrder ==
    FoundStopped =>
        /\ \A i, j \in 1..Len(events) : i < j => Rank(events[i]) <= Rank(events[j])
        /\ Cardinality(EventsOf("startPipeline")) <= 1
        /\ \A j \in EventsOf("startPipeline") :
              ArgsBefore("addConfigNodes", j) = OriginalNodes
        /\ \A j \in EventsOf("mapNode") : ArgsBefore("startPipeline", j) # {}
        /\ \A j \in EventsOf("mapOutputStream") :
              /\ ArgsBefore("startPipeline", j) # {}
              /\ ArgsBefore("mapNode", j) = DOMAIN nodes

C1_Witness ==
    /\ pc = "idle"
    /\ FoundStopped
    /\ Cardinality(EventsOf("addConfigNodes")) = Len(BaseNodes)
    /\ EventsOf("startPipeline") # {}
    /\ Cardinality(EventsOf("mapNode")) > Len(BaseNodes)
    /\ Cardinality(EventsOf("mapOutputStream")) = MaxOutConns

\* C2: an invocation that finds the device running calls neither
\* addConfigNodes nor startPipeline nor mapNode, and by its return has
\* called mapOutputStream for every connection of the pipeline into an
\* XLinkOut node; when the device ran before construction, no
\* configuration input and no server exists at all.
C2_RunningSkipsConfiguration ==
    FoundRunning =>
        /\ \A i \in 1..Len(events) :
              events[i][1] \in {"isPipelineRunning", "ROS_WARN", "mapOutputStream"}
        /\ running
        /\ connections = conns
        /\ pc \in {"streams", "idle"}
        /\ pc = "idle" => ArgsBefore("mapOutputStream", Len(events) + 1) = XLinkOutConnections
        /\ builds = 1 =>
              /\ OriginalNodes = DOMAIN nodes
              /\ \A k \in 1..Len(keep_alive) : ~IsServer(keep_alive[k])

C2_Witness ==
    /\ pc = "idle"
    /\ FoundRunning
    /\ builds = 1
    /\ Cardinality(EventsOf("mapOutputStream")) = MaxOutConns
    /\ Len(ros) = MaxOutConns

SameConnection(i, j) == ros[i].conn = ros[j].conn

\* C3 as claimed: no two publishers are created for one output connection,
\* however often BuildPublisherFromPipeline is invoked.
C3_OnePublisherPerConnection ==
    \A i, j \in 1..Len(ros) : SameConnection(i, j) => i = j

\* C3 as amended: one invocation creates at most one publisher for an
\* output connection, so a connection has at most as many publishers as
\* there were invocations.
C3_OnePublisherPerConnectionPerBuild ==
    /\ \A i, j \in 1..Len(ros) :
          SameConnection(i, j) /\ ros[i].build = ros[j].build => i = j
    /\ \A i \in 1..Len(ros) :
          Cardinality({j \in 1..Len(ros) : SameConnection(i, j)}) <= builds

C3_Witness ==
    /\ pc = "idle"
    /\ builds = MaxBuilds
    /\ \E i \in 1..Len(ros) :
          Cardinality({j \in 1..Len(ros) : SameConnection(i, j)}) = MaxBuilds

Reconfigurable(n) ==
    DynCast(n, "StereoDepth") \/ DynCast(n, "ColorCamera") \/ DynCast(n, "MonoCamera")

\* C4: a StereoDepth, ColorCamera or MonoCamera node has at most one
\* configuration server, every other node (the injected XLinkIn nodes
\* included) has none, whatever the number of invocations.
C4_OneServerPerNode ==
    \A n \in DOMAIN nodes :
        /\ Len(ServersOf(n)) <= 1
        /\ ~Reconfigurable(n) => Len(ServersOf(n)) = 0

C4_Witness ==
    /\ pc = "idle"
    /\ builds = MaxBuilds
    /\ \E n \in DOMAIN nodes : DynCast(n, "XLinkIn")
    /\ \A n \in DOMAIN nodes : Reconfigurable(n) => Len(ServersOf(n)) = 1

-----------------------------------------------------------------------------
(* Properties of mapOutputStream, on the latest connection it was called for *)

Attached == last.conn # NoConnection
Producer == last.conn.outputId
Port == last.conn.outputName
ProducerIs(T) == Attached /\ DynCast(Producer, T)

SidedPorts == {"rectifiedLeft", "rectifiedRight", "syncedLeft", "syncedRight"}
DepthPorts == {"depth", "disparity", "confidenceMap"}
ColorDocumented == {"video", "still", "preview", "isp"}

SideOf(port) == IF port \in {"rectifiedLeft", "syncedLeft"} THEN "left" ELSE "right"

\* the mono cameras linked to the side input of the stereo node
MonoFeeding(stereo, side) ==
    {conns[k].outputId : k \in {i \in 1..Len(conns) :
        /\ conns[i].inputId = stereo
        /\ conns[i].inputName = side
        /\ DynCast(conns[i].outputId, "MonoCamera")}}

Documented ==
    \/ ProducerIs("StereoDepth") /\ Port \in DepthPorts
    \/ ProducerIs("StereoDepth") /\ Port \in SidedPorts
                                 /\ MonoFeeding(Producer, SideOf(Port)) # {}
    \/ ProducerIs("IMU")
    \/ ProducerIs("ColorCamera") /\ Port \in ColorDocumented
    \/ ProducerIs("MonoCamera")

DocumentedTopic ==
    CASE ProducerIs("StereoDepth") /\ Port \in DepthPorts -> "stereo/" \o Port
      [] ProducerIs("StereoDepth") /\ Port \in {"rectifiedLeft", "rectifiedRight"} ->
            SideOf(Port) \o "/image_rect"
      [] ProducerIs("StereoDepth") /\ Port \in {"syncedLeft", "syncedRight"} ->
            SideOf(Port) \o "/image_raw"
      [] ProducerIs("IMU") -> "imu"
      [] ProducerIs("ColorCamera") -> "color/image"
      [] ProducerIs("MonoCamera") -> FrameNames(nodes[Producer].socket) \o "/image"

DocumentedSizes ==
    CASE ProducerIs("StereoDepth") /\ Port \in DepthPorts -> {<<1280, 720>>}
      [] ProducerIs("StereoDepth") /\ Port \in SidedPorts ->
            {nodes[m].res : m \in MonoFeeding(Producer, SideOf(Port))}
      [] ProducerIs("IMU") -> {<<0, 0>>}
      [] ProducerIs("ColorCamera") ->
            {CASE Port = "video" -> VideoSize [] Port = "still" -> StillSize
               [] Port = "preview" -> PreviewSize [] Port = "isp" -> IspSize}
      [] ProducerIs("MonoCamera") -> {nodes[Producer].res}

SizeOf(publisher) == <<publisher.info.w, publisher.info.h>>

\* C5 as claimed: for a documented (node kind, output port) pair, a sided
\* stereo port counting when a mono camera feeds that side, mapOutputStream
\* creates exactly one publisher, on the documented topic and with the
\* documented calibration size.
C5_DocumentedPairPublishes ==
    Documented =>
        /\ Len(last.pubs) = 1
        /\ last.pubs[1].topic = DocumentedTopic
        /\ SizeOf(last.pubs[1]) \in DocumentedSizes

\* C6 as claimed: a recognized kind with a port name not documented for
\* it gets no publisher.
C6_UndocumentedPortNoPublisher ==
    (\/ ProducerIs("StereoDepth") /\ Port \notin DepthPorts \cup SidedPorts
     \/ ProducerIs("ColorCamera") /\ Port \notin ColorDocumented)
        => last.pubs = <<>>

\* C6 as amended: a StereoDepth port that is not documented gets no
\* publisher; a ColorCamera port that is not documented gets one publisher
\* on "color/image" with the default 1280x720 size; both log one warning
\* and report the connection handled.
C6_UndocumentedPort ==
    /\ ProducerIs("StereoDepth") /\ Port \notin DepthPorts \cup SidedPorts =>
          /\ last.pubs = <<>>
          /\ last.kept = <<>>
          /\ last.warns = <<"Don't understand output">>
          /\ last.ret
    /\ ProducerIs("ColorCamera") /\ Port \notin ColorDocumented =>
          /\ Len(last.pubs) = 1
          /\ last.pubs[1].topic = "color/image"
          /\ SizeOf(last.pubs[1]) = <<1280, 720>>
          /\ last.warns = <<"Don't understand output">>
          /\ last.ret

C6_Witness ==
    /\ ProducerIs("ColorCamera")
    /\ Port = "raw"
    /\ Len(last.pubs) = 1
    /\ pc = "idle"

\* C7: a sided StereoDepth port whose side input no MonoCamera feeds gets
\* no publisher, nothing is added to keep_alive or converters, and the
\* handler reports handled: the dispatcher's warning is not logged.
C7_NoMonoSourceNoPublisher ==
    (ProducerIs("StereoDepth") /\ Port \in SidedPorts
        /\ MonoFeeding(Producer, SideOf(Port)) = {}) =>
        /\ last.pubs = <<>>
        /\ last.kept = <<>>
        /\ last.convs = <<>>
        /\ last.ret
        /\ last.warns = <<"Could not get input source">>

C7_Witness ==
    /\ ProducerIs("StereoDepth")
    /\ Port = "rectifiedLeft"
    /\ MonoFeeding(Producer, "left") = {}
    /\ \E k \in 1..Len(conns) : conns[k].inputId = Producer /\ conns[k].inputName = "left"
    /\ last.ret

\* the kinds of KnownInputNodeTypes the producer can be cast to, by position
Matching == {i \in 1..Len(KnownInputNodeTypes) : DynCast(Producer, KnownInputNodeTypes[i])}

FirstMatching == CHOOSE i \in Matching : \A j \in Matching : i <= j

\* C10: mapOutputStream calls the handler of the first kind of the list
\* ColorCamera, IMU, StereoDepth, MonoCamera the producer can be cast to,
\* and no other handler, whatever the port name; when no kind matches no
\* handler is called, nothing is created and only the warning is logged.
C10_FirstMatchingKindOnly ==
    Attached =>
        IF Matching = {}
        THEN /\ last.calls = <<>>
             /\ last.pubs = <<>>
             /\ last.kept = <<>>
             /\ last.convs = <<>>
             /\ last.warns = <<"Could not generate depthai publisher">>
        ELSE /\ last.calls = <<KnownInputNodeTypes[FirstMatching]>>
             /\ last.ret

C10_Witness ==
    /\ ProducerIs("MonoCamera")
    /\ Port \in StereoPorts
    /\ last.calls = <<"MonoCamera">>
    /\ Len(last.pubs) = 1

-----------------------------------------------------------------------------
(* Properties of the camera-control callbacks *)

\* the value the specification gives each field after a bounding-box message
ExpectedAfter(op, bb, old, f) ==
    CASE op = "ae_bbox" /\ f = "autoexposure_startx" -> bb.center_x - bb.size_x \div 2
      [] op = "ae_bbox" /\ f = "autoexposure_starty" -> bb.center_y - bb.size_y \div 2
      [] op = "ae_bbox" /\ f = "autoexposure_width" -> bb.size_x
      [] op = "ae_bbox" /\ f = "autoexposure_height" -> bb.size_y
      [] op = "af_bbox" /\ f = "autofocus_startx" -> bb.center_x - bb.size_x \div 2
      [] op = "af_bbox" /\ f = "autofocus_starty" -> bb.center_y - bb.size_y \div 2
      [] op = "af_bbox" /\ f = "autofocus_width" -> bb.size_x
      [] op = "af_bbox" /\ f = "autofocus_height" -> bb.size_y
      [] OTHER -> old[f]

\* C8: after the ae_bbox (af_bbox) callback has handled a message, the
\* snapshot of the camera has startx, starty, width and height of the
\* auto-exposure (auto-focus) group equal to center.x - size_x/2,
\* center.y - size_y/2, size_x, size_y, and every other field as it was
\* before the message.
C8_BBoxChangesOnlyItsRegion ==
    handled.op \in {"ae_bbox", "af_bbox"} =>
        \A f \in ConfigFields :
            current_config[handled.cam][f] =
                ExpectedAfter(handled.op, handled.bb, before, f)

C8_Witness ==
    /\ handled.op = "ae_bbox"
    /\ before.contrast = 1
    /\ before.autofocus_width = 4
    /\ before.autoexposure_width = 8
    /\ current_config[handled.cam].autoexposure_width = 2
    /\ current_config[handled.cam].autoexposure_startx = 3

\* the region setter of the group in a control object, as a set
SentRegion(op, dcfg) ==
    {dcfg[i] : i \in {k \in 1..Len(dcfg) :
        dcfg[k][1] = IF op = "ae_bbox" THEN "setAutoExposureRegion" ELSE "setAutoFocusRegion"}}

\* C9 as claimed: the callbacks exclude each other, so the control object
\* a bounding-box callback sends carries the region of its own message.
C9_BBoxSendsItsOwnRegion ==
    handled.op \in {"ae_bbox", "af_bbox"} =>
        \A call \in SentRegion(handled.op, handled.dcfg) :
            /\ call[2] = U16(handled.bb.center_x - handled.bb.size_x \div 2)
            /\ call[3] = U16(handled.bb.center_y - handled.bb.size_y \div 2)
            /\ call[4] = U16(handled.bb.size_x)
            /\ call[5] = U16(handled.bb.size_y)

-----------------------------------------------------------------------------
(* Properties of the translation of level to a control object *)

\* the bit of level is set (level taken as a 32-bit pattern)
HasBit(level, b) == level % (2 * b) >= b

\* the setter calls of each parameter group, by the bit of the group
GroupSetters ==
    (1 :> {"setAutoFocusMode"}) @@
    (2 :> {"setAutoFocusRegion", "setAutoFocusLensRange"}) @@
    (4 :> {"setManualFocus"}) @@
    (8 :> {"setAutoExposureLock"}) @@
    (16 :> {"setAutoExposureRegion"}) @@
    (32 :> {"setAutoExposureCompensation"}) @@
    (64 :> {"setContrast"}) @@
    (128 :> {"setBrightness"}) @@
    (256 :> {"setSaturation"}) @@
    (512 :> {"setSharpness"}) @@
    (1024 :> {"setChromaDenoise"})

\* how many times a setter is applied to a control object
Applied(dcfg, name) == Cardinality({i \in 1..Len(dcfg) : dcfg[i][1] = name})

SettersOn(dcfg) == {dcfg[i][1] : i \in 1..Len(dcfg)}

\* each setter of the list is applied once if the bit of its group is set
\* and not at all otherwise
ListedSettersFollowBits(level, dcfg) ==
    \A b \in DOMAIN GroupSetters : \A name \in GroupSetters[b] :
        Applied(dcfg, name) = IF HasBit(level, b) THEN 1 ELSE 0

\* C11 as claimed: each setter of the list is applied if and only if the
\* bit of its group is set in level, and no setter is applied because of a
\* bit of another group, so every setter on the sent control object is the
\* setter of a group whose own bit is set.
C11_EachBitOneSetter ==
    handled.op # "none" =>
        /\ ListedSettersFollowBits(handled.level, handled.dcfg)
        /\ \A name \in SettersOn(handled.dcfg) :
              \E b \in DOMAIN GroupSetters :
                  name \in GroupSetters[b] /\ HasBit(handled.level, b)

\* C11: each setter of the list is applied exactly once if the bit of its
\* group is set in level and not otherwise; setStartStreaming has no bit of
\* its own and is applied exactly when level is 0xffffffff or one of the
\* bits 1, 2, 4 is set; no other setter is applied, and the bits above 1024
\* apply none.
C11_SettersFollowLevel ==
    handled.op # "none" =>
        /\ ListedSettersFollowBits(handled.level, handled.dcfg)
        /\ Applied(handled.dcfg, "setStartStreaming") =
              IF \E b \in {1, 2, 4} : HasBit(handled.level, b) THEN 1 ELSE 0
        /\ SettersOn(handled.dcfg) \subseteq
              {"setStartStreaming"} \cup UNION {GroupSetters[b] : b \in DOMAIN GroupSetters}

C11_Witness ==
    /\ handled.op = "reconfigure"
    /\ handled.level = 2 + 2048
    /\ SettersOn(handled.dcfg) =
          {"setStartStreaming", "setAutoFocusRegion", "setAutoFocusLensRange"}

-----------------------------------------------------------------------------
(* Properties of the steps of a bounding-box callback *)

\* the setters of the field group of a bounding-box topic
BBoxGroup(t) == IF t = "ae" THEN GroupSetters[16] ELSE GroupSetters[2]

\* the setters triggger_update applies for the level of the topic
BBoxSetters(t) ==
    IF t = "ae" THEN GroupSetters[16] ELSE GroupSetters[2] \cup {"setStartStreaming"}

\* one step of the callback of topic t, by the statement it leaves
BBoxStep(t) ==
    LET cam == TheCamera
        from == thread[t].pc
        to == thread'[t].pc
    IN  thread'[t] # thread[t] =>
          CASE from = "idle" ->
                  /\ to = "updateConfig"
                  /\ \A f \in ConfigFields :
                        current_config'[cam][f] =
                            ExpectedAfter(t \o "_bbox", thread'[t].bb, current_config[cam], f)
                  /\ server_config' = server_config
                  /\ configQueue' = configQueue
            [] from = "updateConfig" ->
                  /\ to = "dcfg"
                  /\ server_config'[cam] = current_config[cam]
                  /\ current_config' = current_config
                  /\ configQueue' = configQueue
            [] from = "dcfg" ->
                  /\ to = "send"
                  /\ server_config' = server_config
                  /\ configQueue' = configQueue
            [] from = "send" ->
                  /\ to = "idle"
                  /\ Len(configQueue'[cam]) = 1
                  /\ SettersOn(configQueue'[cam][1]) = BBoxSetters(t)
                  /\ \A name \in BBoxSetters(t) : Applied(configQueue'[cam][1], name) = 1
                  /\ handled'.cam = cam

\* C12 as claimed: the control object a bounding-box callback sends carries
\* the setters of the affected field group (auto-exposure region for
\* ae_bbox, auto-focus region and lens range for af_bbox) and no setter of
\* any other group.
C12_BBoxCarriesOnlyItsGroup ==
    /\ handled.op = "ae_bbox" => SettersOn(handled.dcfg) = BBoxGroup("ae")
    /\ handled.op = "af_bbox" => SettersOn(handled.dcfg) = BBoxGroup("af")

\* C12: a bounding-box callback first writes the region fields of the
\* snapshot, then mirrors the snapshot into the stored config of the server,
\* then builds one control object and sends it once on the control queue of
\* its camera; the object carries setAutoExposureRegion alone for ae_bbox,
\* and setStartStreaming, setAutoFocusRegion and setAutoFocusLensRange for
\* af_bbox.
C12_BBoxStepsInOrder == [][BBoxStep("ae") /\ BBoxStep("af")]_vars

C12_Witness ==
    /\ handled.op = "af_bbox"
    /\ SettersOn(handled.dcfg) =
          {"setStartStreaming", "setAutoFocusRegion", "setAutoFocusLensRange"}
    /\ configQueue[handled.cam] = <<handled.dcfg>>
    /\ server_config[handled.cam].autofocus_width = handled.bb.size_x
    /\ handled.bb.size_x = 2

-----------------------------------------------------------------------------
(* Properties of object lifetime: what the callbacks reference is held *)

ElementsOf(q) == {q[i] : i \in DOMAIN q}

ConverterClasses == {"ImageConverter", "DisparityConverter", "ImuConverter"}

\* the converters the orchestrator holds, in keep_alive or in converters
HeldConverters ==
    {k.id : k \in {h \in ElementsOf(keep_alive) : h.cls \in ConverterClasses}}
    \cup ElementsOf(converters)

\* the publishers the orchestrator holds, in publishers or in keep_alive
HeldPublishers ==
    ElementsOf(publishers)
    \cup {k.id : k \in {h \in ElementsOf(keep_alive) : h.cls = "BridgePublisher"}}

\* the objects a configuration server of the node's class needs alive
ServerObjects(n) ==
    IF DynCast(n, "StereoDepth") THEN {"Server<StereoDepthConfig>"}
    ELSE IF DynCast(n, "ColorCamera") \/ DynCast(n, "MonoCamera")
    THEN {"CameraControlConfig", "ae_subscriber", "af_subscriber", "Server<CameraControlConfig>"}
    ELSE {}

\* mapNode has run for the node, in this invocation or an earlier one
Served(n) ==
    \/ <<"mapNode", n>> \in ElementsOf(events)
    \/ n \in DOMAIN current_config

\* C13: in every reachable state, the converter each created publisher
\* references is held in keep_alive or converters, each created publisher
\* is held in publishers or keep_alive, each held converter is referenced by
\* exactly one publisher, and for every node mapNode has served, the server
\* (and for a camera its snapshot and two subscriptions) is in keep_alive.
C13_ReferencedObjectsHeld ==
    /\ \A p \in ElementsOf(ros) : p.conv \in HeldConverters
    /\ \A p \in ElementsOf(ros) : p.id \in HeldPublishers
    /\ \A c \in HeldConverters :
          Cardinality({i \in DOMAIN ros : ros[i].conv = c}) = 1
    /\ \A n \in DOMAIN nodes : Served(n) =>
          \A cls \in ServerObjects(n) :
              \E k \in ElementsOf(keep_alive) : k.cls = cls /\ k.node = n

C13_Witness ==
    /\ pc = "idle"
    /\ builds = MaxBuilds
    /\ Len(ros) = MaxBuilds
    /\ \A p \in ElementsOf(ros) : p.topic = "stereo/disparity"
    /\ \E k \in ElementsOf(keep_alive) : k.cls = "DisparityConverter"
    /\ \E n \in DOMAIN nodes : DynCast(n, "ColorCamera") /\ Served(n)

====
